---- MODULE Spec2Model ----
(***************************************************************************)
(* Model of the crypto price tracker: Crypto.get_prices (normalisation of  *)
(* the raw CoinGecko samples), TrendAnalyzer.analyze_trends (trend         *)
(* metrics) and Crypto.suggest_investments (recommendation filter).        *)
(*                                                                         *)
(* Numbers.  Prices are integers.  Every derived float is modelled in      *)
(* exact arithmetic as a record [k, n, d]: k = "fin" is the rational n/d   *)
(* in lowest terms with d > 0, k = "inf" / "ninf" / "nan" are the IEEE     *)
(* values numpy produces on a division by zero, and k = "sqrt" is the      *)
(* irrational square root of n/d.                                          *)
(***************************************************************************)
EXTENDS Integers, Sequences, FiniteSets, TLC

VARIABLES
    tz,               \* UTC offset (seconds) of the local time zone of the host
    raw,              \* SpecNorm: data['prices'] of one response, a sequence of
                      \* <<ts_ms, price>>; Spec: the responses of the last call, one per coin
    df,               \* the DataFrame get_prices builds from raw
    df2,              \* the result of de-duplicating df once more
    coin_names,       \* Crypto.coin_names
    prices_data,      \* Crypto.prices_data / TrendAnalyzer.price_data (ordered dict)
    trends,           \* the dict analyze_trends returns (ordered dict)
    recommendations,  \* the list suggest_investments returns
    printed,          \* the detailed recommendation lines written to stdout
    pc                \* position of the run

vars == <<tz, raw, df, df2, coin_names, prices_data, trends, recommendations,
          printed, pc>>

-----------------------------------------------------------------------------
(* Bounds and input universes *)

MaxSamples == 3
MaxRows == 3
MaxCoins == 2

\* epoch milliseconds: 1970-01-01 00:00, 12:00 and 1970-01-02 00:00 UTC
Timestamps == {0, 43200000, 86400000}
\* local zones of the host: UTC and UTC-5
TimeZones == {0, -18000}
SamplePrices == {20, 21, 22}
Coins == {"bitcoin", "ethereum"}

SeqUpTo(n, S) == UNION {[1..m -> S] : m \in 0..n}

-----------------------------------------------------------------------------
(* Exact arithmetic for the floats of the analysis *)

Abs(x) == IF x < 0 THEN -x ELSE x

RECURSIVE GCD(_, _)
GCD(a, b) == IF b = 0 THEN a ELSE GCD(b, a % b)

Rat(n, d) ==
    LET g == GCD(Abs(n), Abs(d))
        s == IF d < 0 THEN -1 ELSE 1
    IN  [k |-> "fin", n |-> s * (n \div g), d |-> s * (d \div g)]

Num(i) == [k |-> "fin", n |-> i, d |-> 1]
Inf == [k |-> "inf", n |-> 0, d |-> 1]
NInf == [k |-> "ninf", n |-> 0, d |-> 1]
NaN == [k |-> "nan", n |-> 0, d |-> 1]

FSign(a) ==
    CASE a.k = "inf" -> 1
      [] a.k = "ninf" -> -1
      [] a.k = "nan" -> 0
      [] OTHER -> IF a.n > 0 THEN 1 ELSE IF a.n < 0 THEN -1 ELSE 0

Signed(s) == IF s > 0 THEN Inf ELSE IF s < 0 THEN NInf ELSE NaN

FNeg(a) ==
    CASE a.k = "inf" -> NInf
      [] a.k = "ninf" -> Inf
      [] a.k = "nan" -> NaN
      [] OTHER -> [a EXCEPT !.n = -a.n]

FAdd(a, b) ==
    IF a.k = "nan" \/ b.k = "nan" THEN NaN
    ELSE IF a.k # "fin" /\ b.k # "fin" THEN (IF a.k = b.k THEN a ELSE NaN)
    ELSE IF a.k # "fin" THEN a
    ELSE IF b.k # "fin" THEN b
    ELSE LET l == (a.d \div GCD(a.d, b.d)) * b.d
         IN  Rat(a.n * (l \div a.d) + b.n * (l \div b.d), l)

FSub(a, b) == FAdd(a, FNeg(b))

FMul(a, b) ==
    IF a.k = "nan" \/ b.k = "nan" THEN NaN
    ELSE IF a.k # "fin" \/ b.k # "fin" THEN Signed(FSign(a) * FSign(b))
    ELSE LET g1 == GCD(Abs(a.n), b.d)
             g2 == GCD(Abs(b.n), a.d)
         IN  Rat((a.n \div g1) * (b.n \div g2), (a.d \div g2) * (b.d \div g1))

\* numpy true division: x/0 is inf, -inf or nan (with a RuntimeWarning), never an exception
FDiv(a, b) ==
    IF a.k = "nan" \/ b.k = "nan" THEN NaN
    ELSE IF a.k # "fin" /\ b.k # "fin" THEN NaN
    ELSE IF a.k # "fin" THEN (IF FSign(b) < 0 THEN FNeg(a) ELSE a)
    ELSE IF b.k # "fin" THEN Num(0)
    ELSE IF b.n = 0 THEN Signed(FSign(a))
    ELSE FMul(a, Rat(b.d, b.n))

\* a > b for a float a and an integer literal b; every comparison with nan is False
FGt(a, b) ==
    CASE a.k = "inf" -> TRUE
      [] a.k = "ninf" -> FALSE
      [] a.k = "nan" -> FALSE
      [] OTHER -> a.n > b * a.d

RECURSIVE ISqrtIn(_, _, _)
ISqrtIn(x, lo, hi) ==
    IF lo >= hi THEN lo
    ELSE LET mid == (lo + hi + 1) \div 2
         IN  IF mid * mid <= x THEN ISqrtIn(x, mid, hi) ELSE ISqrtIn(x, lo, mid - 1)

ISqrt(x) == ISqrtIn(x, 0, IF x < 46340 THEN x ELSE 46340)

FSqrt(a) ==
    IF a.k # "fin" THEN (IF a.k = "inf" THEN Inf ELSE NaN)
    ELSE IF a.n < 0 THEN NaN
    ELSE LET rn == ISqrt(a.n)
             rd == ISqrt(a.d)
         IN  IF rn * rn = a.n /\ rd * rd = a.d THEN Rat(rn, rd)
             ELSE [k |-> "sqrt", n |-> a.n, d |-> a.d]

RECURSIVE FSum(_)
FSum(s) == IF s = <<>> THEN Num(0) ELSE FAdd(FSum(SubSeq(s, 1, Len(s) - 1)), s[Len(s)])

-----------------------------------------------------------------------------
(* get_prices: normalisation of one payload *)

\* datetime.fromtimestamp(ts / 1000).date(), as the day number since 1970-01-01
\* in the local zone of the host
FromTimestampDate(ts, zone) == ((ts \div 1000) + zone) \div 86400

\* the list comprehension and pd.DataFrame(price_data, columns=['date', 'price_usd'])
DataFrame(prices, zone) ==
    [i \in 1..Len(prices) |->
        [date |-> FromTimestampDate(prices[i][1], zone), price_usd |-> prices[i][2]]]

\* the rows of frame at the positions in keep, in their order
Rows(frame, keep) ==
    LET F[i \in 0..Len(frame)] ==
            IF i = 0 THEN <<>>
            ELSE IF i \in keep THEN Append(F[i - 1], frame[i]) ELSE F[i - 1]
    IN  F[Len(frame)]

\* a plausible slip: the result of drop_duplicates is not assigned back
drop_duplicates_discarded(frame) == frame

\* a plausible slip: keep='first'
drop_duplicates_keep_first(frame) ==
    Rows(frame, {i \in 1..Len(frame) : \A j \in 1..(i - 1) : frame[j].date # frame[i].date})

\* a plausible slip: the last row is lost (off by one)
drop_duplicates_drop_last(frame) ==
    Rows(frame, {i \in 1..(Len(frame) - 1) :
                    \A j \in (i + 1)..Len(frame) : frame[j].date # frame[i].date})

\* df.drop_duplicates(subset=['date'], keep='last')
drop_duplicates(frame) ==
    Rows(frame, {i \in 1..Len(frame) :
                    \A j \in (i + 1)..Len(frame) : frame[j].date # frame[i].date})

\* the body of "if 'prices' in data": the frame stored for the coin
Normalize(prices, zone) == drop_duplicates(DataFrame(prices, zone))

-----------------------------------------------------------------------------
(* Specification SpecNorm: the normalisation of one payload *)

Samples == Timestamps \X SamplePrices

InitNorm ==
    /\ tz \in TimeZones
    /\ raw \in SeqUpTo(MaxSamples, Samples)
    /\ df = <<>>
    /\ df2 = <<>>
    /\ coin_names = <<>>
    /\ prices_data = <<>>
    /\ trends = <<>>
    /\ recommendations = <<>>
    /\ printed = <<>>
    /\ pc = "raw"

NormalizeStep ==
    /\ pc = "raw"
    /\ df' = Normalize(raw, tz)
    /\ pc' = "normalized"
    /\ UNCHANGED <<tz, raw, df2, coin_names, prices_data, trends, recommendations, printed>>

RenormalizeStep ==
    /\ pc = "normalized"
    /\ df2' = drop_duplicates(df)
    /\ pc' = "renormalized"
    /\ UNCHANGED <<tz, raw, df, coin_names, prices_data, trends, recommendations, printed>>

NextNorm == NormalizeStep \/ RenormalizeStep

SpecNorm == InitNorm /\ [][NextNorm]_vars

-----------------------------------------------------------------------------
(* Python dicts keep insertion order: a dict is a sequence of [key, value] *)

Keys(dict) == {dict[i].key : i \in 1..Len(dict)}
Get(dict, key) == dict[CHOOSE i \in 1..Len(dict) : dict[i].key = key].value
\* dict[key] = value: a present key keeps its position, a new key goes last
DictSet(dict, key, value) ==
    IF key \in Keys(dict)
    THEN [i \in 1..Len(dict) |->
            IF dict[i].key = key THEN [key |-> key, value |-> value] ELSE dict[i]]
    ELSE Append(dict, [key |-> key, value |-> value])

-----------------------------------------------------------------------------
(* TrendAnalyzer.analyze_trends *)

\* df['price_usd'].values
PriceValues(frame) == [i \in 1..Len(frame) |-> Num(frame[i].price_usd)]

\* a plausible slip: the change is taken relative to the last price
change_percentage_of_last(frame) ==
    LET first_price == Num(frame[1].price_usd)
        last_price == Num(frame[Len(frame)].price_usd)
    IN  FMul(FDiv(FSub(last_price, first_price), last_price), Num(100))

\* ((last_price - first_price) / first_price) * 100 with iloc[0] and iloc[-1]
change_percentage(frame) ==
    LET first_price == Num(frame[1].price_usd)
        last_price == Num(frame[Len(frame)].price_usd)
    IN  FMul(FDiv(FSub(last_price, first_price), first_price), Num(100))

\* [(p[i] - p[i-1]) / p[i-1] for i in range(1, len(p))]
daily_changes(frame) ==
    LET price_changes == PriceValues(frame)
    IN  [i \in 1..(Len(frame) - 1) |->
            FDiv(FSub(price_changes[i + 1], price_changes[i]), price_changes[i])]

\* pd.Series(values).std(): ddof = 1, nan values skipped, nan when fewer than
\* two values remain
SeriesStd(values) ==
    LET valid == SelectSeq(values, LAMBDA v : v.k # "nan")
        count == Len(valid)
        avg == FDiv(FSum(valid), Num(count))
        sqr == [i \in 1..count |-> FMul(FSub(avg, valid[i]), FSub(avg, valid[i]))]
    IN  IF count <= 1 THEN NaN
        ELSE FSqrt(FDiv(FSum(sqr), Num(count - 1)))

\* a plausible slip: the threshold is "at least one daily change"
volatility_from_one_change(frame) ==
    IF Len(daily_changes(frame)) > 0 THEN SeriesStd(daily_changes(frame)) ELSE Num(0)

\* the std of the daily changes when there is more than one, else 0.0
volatility(frame) ==
    IF Len(daily_changes(frame)) > 1 THEN SeriesStd(daily_changes(frame)) ELSE Num(0)

\* price_changes.mean()
average_price(frame) == FDiv(FSum(PriceValues(frame)), Num(Len(frame)))

\* the dict stored in trends[coin_name]
Metrics(frame) ==
    [change_percentage |-> change_percentage(frame),
     volatility |-> volatility(frame),
     average_price |-> average_price(frame)]

\* a plausible slip: a series needs two rows to be analysed
Skipped_single_row(frame) == Len(frame) < 2

\* df.empty
Skipped(frame) == Len(frame) = 0

\* the loop over self.price_data.items()
analyze_trends(price_data) ==
    LET F[i \in 0..Len(price_data)] ==
            IF i = 0 THEN <<>>
            ELSE IF Skipped(price_data[i].value) THEN F[i - 1]
            ELSE DictSet(F[i - 1], price_data[i].key, Metrics(price_data[i].value))
    IN  F[Len(price_data)]

-----------------------------------------------------------------------------
(* Crypto.get_prices and Crypto.suggest_investments *)

\* what requests.get answers for one coin: raise_for_status() or the transport
\* raises (http_error), a JSON body without 'prices' (no_prices), or a body
\* whose 'prices' list is given
Payloads ==
    { <<>>,
      <<<<0, 20>>, <<43200000, 22>>, <<86400000, 21>>>> }
Responses ==
    {[kind |-> "http_error", prices |-> <<>>], [kind |-> "no_prices", prices |-> <<>>]}
        \cup {[kind |-> "prices", prices |-> p] : p \in Payloads}

\* a plausible slip: the new frames are merged into the old self.prices_data
get_prices_keeps_old(names, resp, zone, old) ==
    LET F[i \in 0..Len(names)] ==
            IF i = 0 THEN old
            ELSE IF resp[i].kind = "prices"
                 THEN DictSet(F[i - 1], names[i], Normalize(resp[i].prices, zone))
                 ELSE F[i - 1]
    IN  F[Len(names)]

\* the loop of get_prices over self.coin_names: the dict assigned to
\* self.prices_data (old is the dict it replaces)
get_prices(names, resp, zone, old) ==
    LET F[i \in 0..Len(names)] ==
            IF i = 0 THEN <<>>
            ELSE IF resp[i].kind = "prices"
                 THEN DictSet(F[i - 1], names[i], Normalize(resp[i].prices, zone))
                 ELSE F[i - 1]
    IN  F[Len(names)]

\* a plausible slip: the filter is >= 0
Recommended_non_negative(trend) ==
    FGt(trend.change_percentage, 0) \/ trend.change_percentage = Num(0)

\* trend['change_percentage'] > 0
Recommended(trend) == FGt(trend.change_percentage, 0)

\* the dict appended to recommendations
Recommendation(coin_name, trend) ==
    [coin |-> coin_name,
     change_percentage |-> trend.change_percentage,
     volatility |-> trend.volatility,
     average_price |-> trend.average_price]

\* the loop over trends.items()
Recommend(trend_dict) ==
    LET F[i \in 0..Len(trend_dict)] ==
            IF i = 0 THEN <<>>
            ELSE IF Recommended(trend_dict[i].value)
                 THEN Append(F[i - 1], Recommendation(trend_dict[i].key, trend_dict[i].value))
                 ELSE F[i - 1]
    IN  F[Len(trend_dict)]

\* a plausible slip: the high tier starts at 5
Suggestion_from_5(rec) ==
    IF FGt(rec.change_percentage, 5) \/ rec.change_percentage = Num(5)
    THEN "High potential for growth!" ELSE "Moderate growth expected."

\* the text of the "Suggestion:" line
Suggestion(rec) ==
    IF FGt(rec.change_percentage, 5)
    THEN "High potential for growth!" ELSE "Moderate growth expected."

\* the detailed block: one "Coin:" ... "Suggestion:" group per recommendation
Details(recs) ==
    [i \in 1..Len(recs) |-> [coin |-> recs[i].coin, suggestion |-> Suggestion(recs[i])]]

\* the display loop: one prompt per recommendation, the detailed block of all
\* recommendations after each answer 'yes'
Display(recs, answers) ==
    LET F[i \in 0..Len(recs)] ==
            IF i = 0 THEN <<>>
            ELSE IF answers[i] = "yes" THEN F[i - 1] \o Details(recs) ELSE F[i - 1]
    IN  F[Len(recs)]

-----------------------------------------------------------------------------
(* Specification Spec: a Crypto object and the calls made on it.  raw holds    *)
(* what the remote answered to each fetch of the last call; trends,           *)
(* recommendations and printed hold what the last call returned and wrote     *)
(* (nothing for get_prices).                                                  *)

Init ==
    /\ tz \in TimeZones
    /\ raw = <<>>
    /\ df = <<>>
    /\ df2 = <<>>
    /\ coin_names \in SeqUpTo(MaxCoins, Coins)
    /\ prices_data = <<>>
    /\ trends = <<>>
    /\ recommendations = <<>>
    /\ printed = <<>>
    /\ pc = "constructed"

GetPrices ==
    \E resp \in [1..Len(coin_names) -> Responses] :
        /\ raw' = resp
        /\ prices_data' = get_prices(coin_names, resp, tz, prices_data)
        /\ trends' = <<>>
        /\ recommendations' = <<>>
        /\ printed' = <<>>
        /\ pc' = "get_prices"
        /\ UNCHANGED <<tz, df, df2, coin_names>>

SuggestInvestments ==
    \E resp \in [1..Len(coin_names) -> Responses] :
        /\ raw' = resp
        /\ prices_data' = get_prices(coin_names, resp, tz, prices_data)
        /\ trends' = analyze_trends(prices_data')
        /\ recommendations' = Recommend(trends')
        /\ \E answers \in [1..Len(recommendations') -> {"yes", "no"}] :
                printed' = Display(recommendations', answers)
        /\ pc' = "suggest_investments"
        /\ UNCHANGED <<tz, df, df2, coin_names>>

Next == GetPrices \/ SuggestInvestments

Spec == Init /\ [][Next]_vars

-----------------------------------------------------------------------------
(* Specification SpecAnalyze: the analysis and the recommendation filter    *)
(* over a dict of DataFrames                                                *)

AnalysisDates == {0, 1}
AnalysisPrices == {0, 20, 21, 22}
AnalysisRows == [date : AnalysisDates, price_usd : AnalysisPrices]

\* sequences of distinct coins, at most MaxCoins long
KeyOrders ==
    {ks \in SeqUpTo(IF MaxCoins < Cardinality(Coins) THEN MaxCoins ELSE Cardinality(Coins),
                    Coins) :
        \A i, j \in 1..Len(ks) : i # j => ks[i] # ks[j]}

RECURSIVE SumSeq(_)
SumSeq(s) == IF s = <<>> THEN 0 ELSE s[Len(s)] + SumSeq(SubSeq(s, 1, Len(s) - 1))

\* the dict with keys ks whose i-th frame is the next lens[i] rows of flat
DictOf(ks, lens, flat) ==
    [i \in 1..Len(ks) |->
        [key |-> ks[i],
         value |-> SubSeq(flat, SumSeq(SubSeq(lens, 1, i - 1)) + 1,
                                SumSeq(SubSeq(lens, 1, i)))]]

\* every dict of frames over distinct coins with at most MaxRows rows in all
InitAnalyze ==
    /\ tz = 0
    /\ raw = <<>>
    /\ df = <<>>
    /\ df2 = <<>>
    /\ coin_names = <<>>
    /\ \E ks \in KeyOrders :
         \E lens \in [1..Len(ks) -> 0..MaxRows] :
            /\ SumSeq(lens) <= MaxRows
            /\ \E flat \in [1..SumSeq(lens) -> AnalysisRows] :
                  prices_data = DictOf(ks, lens, flat)
    /\ trends = <<>>
    /\ recommendations = <<>>
    /\ printed = <<>>
    /\ pc = "loaded"

AnalyzeStep ==
    /\ pc = "loaded"
    /\ trends' = analyze_trends(prices_data)
    /\ pc' = "analyzed"
    /\ UNCHANGED <<tz, raw, df, df2, coin_names, prices_data, recommendations, printed>>

\* the second half of suggest_investments, from "recommendations = []" on,
\* applied to the trends of the analyzer
RecommendStep ==
    /\ pc = "analyzed"
    /\ recommendations' = Recommend(trends)
    /\ \E answers \in [1..Len(recommendations') -> {"yes", "no"}] :
            printed' = Display(recommendations', answers)
    /\ pc' = "recommended"
    /\ UNCHANGED <<tz, raw, df, df2, coin_names, prices_data, trends>>

NextAnalyze == AnalyzeStep \/ RecommendStep

SpecAnalyze == InitAnalyze /\ [][NextAnalyze]_vars

-----------------------------------------------------------------------------
(* Claims about the normalisation (checked under SpecNorm) *)

RawDate(j) == FromTimestampDate(raw[j][1], tz)
RawDates == {RawDate(j) : j \in 1..Len(raw)}
\* the position in raw of the last sample that falls on date d
LastSampleOn(d) ==
    CHOOSE j \in 1..Len(raw) :
        RawDate(j) = d /\ \A m \in (j + 1)..Len(raw) : RawDate(m) # d
StrictlyAscending(frame) ==
    \A i \in 2..Len(frame) : frame[i].date > frame[i - 1].date
UniqueDates(frame) ==
    \A i, j \in 1..Len(frame) : i # j => frame[i].date # frame[j].date

C10_Idempotent == pc = "renormalized" => df2 = df

\* a series of two dates, obtained by merging samples, was de-duplicated again
C10_Witness ==
    /\ pc = "renormalized"
    /\ Len(df) >= 2
    /\ Len(df) < Len(raw)

\* C11: the table stored for the asset has one row per raw sample of the
\* payload, in input order and with that sample's price, also when several
\* samples fall on the same calendar date.
C11_OneRowPerSample ==
    pc # "raw" =>
        /\ Len(df) = Len(raw)
        /\ \A i \in 1..Len(df) : df[i].price_usd = raw[i][2]

-----------------------------------------------------------------------------
(* Claims about the analysis (checked under SpecAnalyze) *)

NonZeroPrices(frame) == \A i \in 1..Len(frame) : frame[i].price_usd # 0
\* the dict without its i-th item
Without(dict, i) == SubSeq(dict, 1, i - 1) \o SubSeq(dict, i + 1, Len(dict))
\* the price of the row of the earliest / latest date of a frame of unique dates
PriceOfEarliest(frame) ==
    frame[CHOOSE i \in 1..Len(frame) :
            \A j \in 1..Len(frame) : frame[i].date <= frame[j].date].price_usd
PriceOfLatest(frame) ==
    frame[CHOOSE i \in 1..Len(frame) :
            \A j \in 1..Len(frame) : frame[i].date >= frame[j].date].price_usd

\* C3: an asset whose first price is 0 gets no metrics, and every other asset of
\* the batch gets the metrics it gets when the failing asset is absent.
C3_ZeroFirstPriceIsolated ==
    pc \in {"analyzed", "recommended"} =>
        \A i \in 1..Len(prices_data) :
            (Len(prices_data[i].value) > 0 /\ prices_data[i].value[1].price_usd = 0) =>
                /\ prices_data[i].key \notin Keys(trends)
                /\ \A j \in 1..Len(prices_data) :
                     (j # i /\ prices_data[j].key \in Keys(trends)) =>
                        /\ prices_data[j].key \in Keys(analyze_trends(Without(prices_data, i)))
                        /\ Get(trends, prices_data[j].key)
                             = Get(analyze_trends(Without(prices_data, i)), prices_data[j].key)

\* C6 as stated: change_percentage is taken between the prices of the earliest
\* and of the latest date of the series, whatever the order of its rows.
C6_ChangeByDateOrder ==
    pc \in {"analyzed", "recommended"} =>
        \A i \in 1..Len(prices_data) :
            LET frame == prices_data[i].value IN
            (Len(frame) > 0 /\ UniqueDates(frame) /\ NonZeroPrices(frame)) =>
                Get(trends, prices_data[i].key).change_percentage
                    = Rat((PriceOfLatest(frame) - PriceOfEarliest(frame)) * 100,
                          PriceOfEarliest(frame))

\* C6 amended: change_percentage is taken between the prices of the first and of
\* the last row of the series as stored; these are the prices of the earliest
\* and of the latest date when the rows are stored in ascending date order.
C6_ChangeByRowOrder ==
    pc \in {"analyzed", "recommended"} =>
        \A i \in 1..Len(prices_data) :
            LET frame == prices_data[i].value IN
            (Len(frame) > 0 /\ frame[1].price_usd # 0) =>
                /\ Get(trends, prices_data[i].key).change_percentage
                     = Rat((frame[Len(frame)].price_usd - frame[1].price_usd) * 100,
                           frame[1].price_usd)
                /\ StrictlyAscending(frame) =>
                     Get(trends, prices_data[i].key).change_percentage
                        = Rat((PriceOfLatest(frame) - PriceOfEarliest(frame)) * 100,
                              PriceOfEarliest(frame))

\* a series stored against the date order whose end prices differ was analysed
C6_Witness ==
    /\ pc = "analyzed"
    /\ \E i \in 1..Len(prices_data) :
        LET frame == prices_data[i].value IN
        /\ Len(frame) = 2
        /\ frame[1].date > frame[2].date
        /\ frame[1].price_usd # 0
        /\ frame[2].price_usd > frame[1].price_usd
        /\ FGt(Get(trends, prices_data[i].key).change_percentage, 0)

\* the sample variance of the daily changes of a frame of non-zero prices,
\* from the sums of the changes over their common denominator
SampleVariance(frame) ==
    LET m == Len(frame) - 1
        den == [i \in 1..m |-> frame[i].price_usd]
        RECURSIVE Prod(_)
        Prod(i) == IF i = 0 THEN 1 ELSE den[i] * Prod(i - 1)
        L == Prod(m)
        a == [i \in 1..m |-> (frame[i + 1].price_usd - frame[i].price_usd) * (L \div den[i])]
        s1 == SumSeq(a)
        s2 == SumSeq([i \in 1..m |-> a[i] * a[i]])
    IN  FDiv(Rat(m * s2 - s1 * s1, m * (m - 1)), FMul(Num(L), Num(L)))

Square(v) == IF v.k = "sqrt" THEN Rat(v.n, v.d) ELSE FMul(v, v)

\* C7: a series of one or two entries with non-zero prices has volatility
\* exactly 0.0, a series of one entry has change_percentage 0, and from three
\* entries on the volatility is the sample standard deviation of the daily changes.
C7_VolatilityThreshold ==
    pc \in {"analyzed", "recommended"} =>
        \A i \in 1..Len(prices_data) :
            LET frame == prices_data[i].value IN
            (Len(frame) > 0 /\ NonZeroPrices(frame)) =>
                LET t == Get(trends, prices_data[i].key) IN
                /\ Len(frame) < 3 => t.volatility = Num(0)
                /\ Len(frame) = 1 => t.change_percentage = Num(0)
                /\ Len(frame) >= 3 =>
                     /\ t.volatility.k \in {"fin", "sqrt"}
                     /\ Square(t.volatility) = SampleVariance(frame)

\* a series of two different non-zero prices and a series of one were analysed
C7_Witness ==
    /\ pc = "analyzed"
    /\ \E i, j \in 1..Len(prices_data) :
        /\ Len(prices_data[i].value) = 2
        /\ NonZeroPrices(prices_data[i].value)
        /\ prices_data[i].value[1].price_usd # prices_data[i].value[2].price_usd
        /\ Get(trends, prices_data[i].key).volatility = Num(0)
        /\ Len(prices_data[j].value) = 1
        /\ NonZeroPrices(prices_data[j].value)

\* C9: the result has one entry for each asset of the input whose series is not
\* empty, none for an asset whose series is empty, and no key outside the input.
C9_NonEmptyAnalyzed ==
    pc \in {"analyzed", "recommended"} =>
        /\ Keys(trends) = {prices_data[i].key : i \in {j \in 1..Len(prices_data) :
                                                        Len(prices_data[j].value) > 0}}
        /\ \A i, j \in 1..Len(trends) : i # j => trends[i].key # trends[j].key
        /\ Keys(trends) \subseteq Keys(prices_data)

\* a batch of an empty series and a series of one row was analysed
C9_Witness ==
    /\ pc = "analyzed"
    /\ \E i, j \in 1..Len(prices_data) :
        /\ Len(prices_data[i].value) = 0
        /\ Len(prices_data[j].value) = 1
        /\ prices_data[i].key \notin Keys(trends)
        /\ prices_data[j].key \in Keys(trends)

-----------------------------------------------------------------------------
(* Claims about the recommendation filter (checked under SpecAnalyze) *)

\* the positions of the trends whose change_percentage is positive
Positive(i) ==
    LET c == trends[i].value.change_percentage
    IN  c.k = "inf" \/ (c.k = "fin" /\ c.n > 0)
PositiveTrends == {i \in 1..Len(trends) : Positive(i)}

C5_ReturnedTier ==
    pc = "recommended" =>
        \A k \in 1..Len(recommendations) :
            recommendations[k].change_percentage.k = "fin" =>
            /\ "tier" \in DOMAIN recommendations[k]
            /\ recommendations[k].tier
                 = IF FGt(recommendations[k].change_percentage, 5)
                   THEN "High potential for growth!" ELSE "Moderate growth expected."

\* C5 amended: a returned recommendation carries the asset, change_percentage,
\* volatility and average_price and no tier; the tier exists only as the
\* "Suggestion:" line of the detailed display, one line per recommendation in
\* their order, and it is "high" exactly when change_percentage > 5 and
\* "moderate" otherwise, so that exactly 5 is moderate.
C5_DisplayedTier ==
    pc = "recommended" =>
        /\ \A k \in 1..Len(recommendations) :
            DOMAIN recommendations[k]
                = {"coin", "change_percentage", "volatility", "average_price"}
        /\ Len(printed) > 0 => Len(recommendations) > 0
        /\ \A k \in 1..Len(printed) :
            LET rec == recommendations[((k - 1) % Len(recommendations)) + 1]
                c == rec.change_percentage
                high == c.k = "inf" \/ (c.k = "fin" /\ c.n > 5 * c.d)
            IN  /\ printed[k].coin = rec.coin
                /\ high => printed[k].suggestion = "High potential for growth!"
                /\ ~high => printed[k].suggestion = "Moderate growth expected."
                /\ c = Num(5) => printed[k].suggestion = "Moderate growth expected."

\* the detailed display of a recommendation whose change is exactly 5 percent
C5_Witness ==
    /\ pc = "recommended"
    /\ \E k \in 1..Len(printed) :
        /\ recommendations[((k - 1) % Len(recommendations)) + 1].change_percentage = Num(5)
        /\ printed[k].suggestion = "Moderate growth expected."

-----------------------------------------------------------------------------
(* Claims about get_prices (checked under Spec) *)

\* the positions of the last call whose fetch succeeded with a 'prices' key
Served == {i \in 1..Len(coin_names) : raw[i].kind = "prices"}

\* C8: after a call, prices_data holds a series for exactly the assets of this
\* call whose fetch succeeded with a payload that has a 'prices' key, the
\* series being the normalisation of that payload; nothing else is in it.
C8_ExactlyServedAssets ==
    pc # "constructed" =>
        /\ Keys(prices_data) = {coin_names[i] : i \in Served}
        /\ \A i, j \in 1..Len(prices_data) : i # j => prices_data[i].key # prices_data[j].key
        /\ \A i \in Served :
            (\A j \in Served : j > i => coin_names[j] # coin_names[i]) =>
                Get(prices_data, coin_names[i]) = Normalize(raw[i].prices, tz)

\* a call where the first asset's fetch failed and the next asset was still
\* fetched and stored
C8_Witness ==
    /\ pc = "get_prices"
    /\ Len(coin_names) = 2
    /\ coin_names[1] # coin_names[2]
    /\ raw[1].kind = "http_error"
    /\ raw[2].kind = "prices"
    /\ Len(raw[2].prices) > 0
    /\ Keys(prices_data) = {coin_names[2]}

====
